---- MODULE Spec2Model ----
(***************************************************************************)
(* Model of the Android JNI bridge rfvp_jni.cpp: run-time resolution of    *)
(* the engine's entry points behind a once flag (load_api_or_log), the     *)
(* one-time registration of the Java VM and the application context        *)
(* (nativeInitAndroidContext, behind g_ctx_once), the handle-keyed table   *)
(* of ANativeWindow references (g_windows, guarded by g_win_mu) and the    *)
(* six JNI shims create / step / resize / setSurface / touch / destroy,    *)
(* called from several threads.                                            *)
(*                                                                         *)
(* The engine (librfvp.so), the platform's window reference counting       *)
(* (ANativeWindow_fromSurface / ANativeWindow_release) and the caller (the *)
(* UI shell) are the environment: the engine hands out handles and may     *)
(* reuse the value of a destroyed instance, every ANativeWindow_fromSurface*)
(* that succeeds yields one new reference, and the caller uses a handle    *)
(* only between the create that returned it and its destroy, never from    *)
(* two threads at once.  Widths, heights, scale, touch coordinates and the *)
(* UTF-8 strings are passed through unchanged and are not state.           *)
(*                                                                         *)
(* Granularity: one step per call_once entry, dlopen, dlsym, engine call,  *)
(* engine return, lock acquisition and locked table update.  The guards of *)
(* a shim and ANativeWindow_fromSurface touch nothing another thread       *)
(* writes, so they are one step with the engine call that follows them;    *)
(* the end of the lock_guard scope and the return that follows it are one  *)
(* step with the table update.                                             *)
(*                                                                         *)
(* Spec has the threads call the six shims, CtxSpec has them call          *)
(* nativeInitAndroidContext, AllSpec both; LiveSpec is Spec under a fair   *)
(* scheduler.  GetJavaVM and NewGlobalRef may fail.                        *)
(***************************************************************************)
EXTENDS Integers, FiniteSets, Sequences, TLC

\* ---------------------------------------------------------------- bounds
MaxHandle == 2     \* distinct non-null handle values the engine hands out
MaxRefs == 2       \* window references ANativeWindow_fromSurface hands out

\* Two threads of the UI shell call into the bridge.
Threads == {1, 2}
Handles == 1..MaxHandle
Wins == 1..MaxRefs

NullHandle == 0    \* handle == 0 / nullptr
NullWin == 0       \* ANativeWindow* nullptr
NullVm == 0        \* JavaVM* nullptr
TheVm == 1         \* the process's JavaVM
NullRef == 0       \* jobject nullptr
Free == 0          \* g_win_mu not held

\* struct Api: the seven slots, in the order load_api_or_log binds them.
SlotOrder ==
  <<"create", "step", "resize", "set_surface", "touch", "destroy", "init_context">>
Slots == {SlotOrder[k] : k \in 1..Len(SlotOrder)}

\* The shims and the slot each of them requires.
Ops == {"create", "step", "resize", "set_surface", "touch", "destroy"}
HandleOps == Ops \ {"create"}
Forwarders == {"step", "resize", "touch"}

\* jobject surface: null, a surface ANativeWindow_fromSurface rejects, a good one.
Surfaces == {"null", "bad", "good"}

\* jobject app_context: null or the application object.
AppObjects == {"null", "object"}

\* What dlopen("librfvp.so") finds: no library, or a library exporting all
\* seven symbols or all but one of them.
LibScenarios ==
  {[present |-> FALSE, exports |-> {}]}
    \cup {[present |-> TRUE, exports |-> Slots \ m] : m \in {{}} \cup {{s} : s \in Slots}}

VARIABLES
  lib,          \* environment: the library dlopen would find now
  g_api,        \* Api g_api: slot -> bound?
  g_api_once,   \* std::once_flag g_api_once: "init", "running", "done"
  g_lib_handle, \* g_lib_handle != nullptr
  resolveRuns,  \* history: executions of the call_once body (counted up to 2)
  g_win_mu,     \* std::mutex g_win_mu: Free or the thread holding it
  g_windows,    \* std::unordered_map<jlong, ANativeWindow*>: function on its keys
  nextWin,      \* platform: next reference ANativeWindow_fromSurface returns
  released,     \* platform: ANativeWindow_release calls per reference (up to 2)
  engLive,      \* engine: handles of the instances alive
  engWin,       \* engine: window reference each instance was handed last
  callerLive,   \* caller: handles returned by create and not yet destroyed
  pc,           \* per thread: position in the shim
  op,           \* per thread: the shim being executed
  handle,       \* per thread: jlong handle (for create: the engine's result)
  surface,      \* per thread: jobject surface
  win,          \* per thread: ANativeWindow* win
  idx,          \* per thread: next slot the call_once body binds
  ret,          \* per thread: value the shim returned
  old,          \* history: table entry of the handle when the shim was called
                \* or, for create, that its table update found
  engCalled,    \* history: the call has invoked an engine entry point
  g_ctx_once,   \* std::once_flag g_ctx_once: "init", "running", "done"
  g_java_vm,    \* JavaVM* g_java_vm: NullVm or TheVm
  g_app_ctx,    \* jobject g_app_ctx: NullRef or the global reference stored
  newRefs,      \* JNI: global references NewGlobalRef has created (up to 2)
  initCalls,    \* engine: invocations of rfvp_android_init_context (up to 2)
  ctxSeen,      \* history, per thread: g_ctx_once when nativeInitAndroidContext
                \* tested its slot and its app_context
  app_context   \* per thread: jobject app_context, "null" or "object"

apiVars == <<lib, g_api, g_api_once, g_lib_handle, resolveRuns>>
tableVars == <<g_win_mu, g_windows>>
platformVars == <<nextWin, released>>
engineVars == <<engLive, engWin>>
threadVars == <<pc, op, handle, surface, win, idx, ret, old, engCalled>>
ctxVars == <<g_ctx_once, g_java_vm, g_app_ctx, newRefs, initCalls>>
vars == <<apiVars, tableVars, platformVars, engineVars, callerLive, threadVars,
          ctxVars, app_context, ctxSeen>>

\* ------------------------------------------------------------- helpers
InFlight(t) == pc[t] \notin {"idle", "done"}

\* it = g_windows.find(key): the mapped reference, NullWin when absent.
Lookup(tab, key) == IF key \in DOMAIN tab THEN tab[key] ELSE NullWin

\* g_windows.erase(it)
Erase(tab, key) == [k \in DOMAIN tab \ {key} |-> tab[k]]

\* g_windows.emplace(key, win): inserts only when the key is absent.
Emplace(tab, key, w) ==
  IF key \in DOMAIN tab
    THEN tab
    ELSE [k \in DOMAIN tab \cup {key} |-> IF k = key THEN w ELSE tab[k]]

\* ANativeWindow_release(w): one more release of reference w.
ANativeWindow_release(rel, w) ==
  [rel EXCEPT ![w] = IF @ < 2 THEN @ + 1 ELSE @]

\* Variant: erases the entry without ANativeWindow_release.
release_window_locked_leak(tab, rel, key) ==
  IF key \in DOMAIN tab
    THEN [tab |-> Erase(tab, key), rel |-> rel]
    ELSE [tab |-> tab, rel |-> rel]

\* Variant: releases the reference without g_windows.erase(it).
release_window_locked_keep(tab, rel, key) ==
  IF key \in DOMAIN tab
    THEN [tab |-> tab,
          rel |-> IF tab[key] # NullWin
                    THEN ANativeWindow_release(rel, tab[key])
                    ELSE rel]
    ELSE [tab |-> tab, rel |-> rel]

\* release_window_locked(handle_key): table and release counts afterwards.
release_window_locked(tab, rel, key) ==
  IF key \in DOMAIN tab
    THEN [tab |-> Erase(tab, key),
          rel |-> IF tab[key] # NullWin
                    THEN ANativeWindow_release(rel, tab[key])
                    ELSE rel]
    ELSE [tab |-> tab, rel |-> rel]

\* Variant: emplace without release_window_locked before it.
install_no_release(tab, rel, key, w) ==
  [tab |-> Emplace(tab, key, w), rel |-> rel]

\* release_window_locked(key); g_windows.emplace(key, win); as create and
\* setSurface do under the lock.
install(tab, rel, key, w) ==
  LET r == release_window_locked(tab, rel, key)
  IN  [tab |-> Emplace(r.tab, key, w), rel |-> r.rel]

\* Variant: a caller that finds the body under way does not wait for it.
OncePasses_no_wait(once) == once # "init"

\* Variant: a caller that finds the body under way runs it as well.
OnceRuns_racy(once) == once # "done"

\* std::call_once(g_api_once, ...): a caller returns at once when the flag is
\* set, runs the body when nobody has started it, and otherwise waits.
OncePasses(once) == once = "done"

OnceRuns(once) == once = "init"

\* Thread t is at the end of load_api_or_log: call_once lets it through.
Resolved(t) == pc[t] = "call_once" /\ OncePasses(g_api_once)

\* ---------------------------------------------------------------- Init
Init ==
  /\ lib \in LibScenarios
  /\ g_api = [s \in Slots |-> FALSE]
  /\ g_api_once = "init"
  /\ g_lib_handle = FALSE
  /\ resolveRuns = 0
  /\ g_win_mu = Free
  /\ g_windows = <<>>
  /\ nextWin = 1
  /\ released = [w \in Wins |-> 0]
  /\ engLive = {}
  /\ engWin = [h \in Handles |-> NullWin]
  /\ callerLive = {}
  /\ pc = [t \in Threads |-> "idle"]
  /\ op = [t \in Threads |-> "none"]
  /\ handle = [t \in Threads |-> NullHandle]
  /\ surface = [t \in Threads |-> "null"]
  /\ win = [t \in Threads |-> NullWin]
  /\ idx = [t \in Threads |-> 1]
  /\ ret = [t \in Threads |-> 0]
  /\ old = [t \in Threads |-> NullWin]
  /\ engCalled = [t \in Threads |-> FALSE]
  /\ g_ctx_once = "init"
  /\ g_java_vm = NullVm
  /\ g_app_ctx = NullRef
  /\ newRefs = 0
  /\ initCalls = 0
  /\ ctxSeen = [t \in Threads |-> "init"]
  /\ app_context = [t \in Threads |-> "null"]


\* ------------------------------------------------------------ the caller
\* The UI shell serialises the calls it makes on one handle value.
Busy(h) ==
  \E u \in Threads : InFlight(u) /\ op[u] \in HandleOps /\ handle[u] = h

\* The handles a call can be made with: 0, or a handle that create has
\* returned, that has not been passed to destroy and that no call under way
\* uses.
Args == {NullHandle} \cup {h \in callerLive : ~Busy(h)}

\* A thread of the UI shell calls one of the six JNI shims, all of which
\* start with load_api_or_log(); which shim it is, and its arguments, come
\* into play in the step after load_api_or_log.
Call(t) ==
  /\ pc[t] \in {"idle", "done"}
  /\ pc' = [pc EXCEPT ![t] = "call_once"]
  /\ op' = [op EXCEPT ![t] = "none"]
  /\ handle' = [handle EXCEPT ![t] = NullHandle]
  /\ surface' = [surface EXCEPT ![t] = "null"]
  /\ win' = [win EXCEPT ![t] = NullWin]
  /\ idx' = [idx EXCEPT ![t] = 1]
  /\ ret' = [ret EXCEPT ![t] = 0]
  /\ old' = [old EXCEPT ![t] = NullWin]
  /\ engCalled' = [engCalled EXCEPT ![t] = FALSE]
  /\ app_context' = [app_context EXCEPT ![t] = "null"]
  /\ ctxSeen' = [ctxSeen EXCEPT ![t] = "init"]
  /\ UNCHANGED <<apiVars, tableVars, platformVars, engineVars, callerLive,
                 ctxVars>>

\* The call of thread t is shim o with the arguments h and s.
Shim(t, o, h, s) ==
  /\ op' = [op EXCEPT ![t] = o]
  /\ handle' = [handle EXCEPT ![t] = h]
  /\ surface' = [surface EXCEPT ![t] = s]
  /\ old' = [old EXCEPT ![t] = Lookup(g_windows, h)]

\* librfvp.so becomes loadable after having been missing.
LibAppears ==
  /\ ~lib.present
  /\ lib' = [present |-> TRUE, exports |-> Slots]
  /\ UNCHANGED <<g_api, g_api_once, g_lib_handle, resolveRuns, tableVars,
                 platformVars, engineVars, callerLive, threadVars>>
  /\ UNCHANGED <<ctxVars, app_context, ctxSeen>>

\* ------------------------------------------------------- load_api_or_log
\* First caller: becomes the one execution of the body.
load_api_enter(t) ==
  /\ pc[t] = "call_once"
  /\ OnceRuns(g_api_once)
  /\ g_api_once' = "running"
  /\ resolveRuns' = IF resolveRuns < 2 THEN resolveRuns + 1 ELSE resolveRuns
  /\ pc' = [pc EXCEPT ![t] = "dlopen"]
  /\ UNCHANGED <<lib, g_api, g_lib_handle, tableVars, platformVars, engineVars,
                 callerLive, op, handle, surface, win, idx, ret, old, engCalled>>
  /\ UNCHANGED <<ctxVars, app_context, ctxSeen>>

\* g_lib_handle = dlopen(...); if (!g_lib_handle) return;
load_api_dlopen(t) ==
  /\ pc[t] = "dlopen"
  /\ g_lib_handle' = lib.present
  /\ IF lib.present
       THEN /\ pc' = [pc EXCEPT ![t] = "bind"]
            /\ UNCHANGED g_api_once
       ELSE /\ pc' = [pc EXCEPT ![t] = "call_once"]
            /\ g_api_once' = "done"
  /\ UNCHANGED <<lib, g_api, resolveRuns, tableVars, platformVars, engineVars,
                 callerLive, op, handle, surface, win, idx, ret, old, engCalled>>
  /\ UNCHANGED <<ctxVars, app_context, ctxSeen>>

\* g_api.<slot> = load("rfvp_android_<slot>"), one slot per step, in order;
\* after the seventh the body ends and the flag is set.
load_api_bind(t) ==
  /\ pc[t] = "bind"
  /\ g_api' = [g_api EXCEPT ![SlotOrder[idx[t]]] = (SlotOrder[idx[t]] \in lib.exports)]
  /\ IF idx[t] < Len(SlotOrder)
       THEN /\ idx' = [idx EXCEPT ![t] = @ + 1]
            /\ UNCHANGED <<pc, g_api_once>>
       ELSE /\ idx' = [idx EXCEPT ![t] = 1]
            /\ pc' = [pc EXCEPT ![t] = "call_once"]
            /\ g_api_once' = "done"
  /\ UNCHANGED <<lib, g_lib_handle, resolveRuns, tableVars, platformVars,
                 engineVars, callerLive, op, handle, surface, win, ret, old,
                 engCalled>>
  /\ UNCHANGED <<ctxVars, app_context, ctxSeen>>

\* ------------------------------------------------------------- the shims
\* Variant: a shim also gives up when the init_context slot is unbound.
Rejected_needs_init_context(o, api, h) ==
  ~api[o] \/ ~api["init_context"] \/ (o \in HandleOps /\ h = NullHandle)

\* Variant: the slot is not tested before it is called.
Rejected_no_slot_test(o, api, h) == o \in HandleOps /\ h = NullHandle

\* Variant: the handle is not tested against 0.
Rejected_no_null_test(o, api, h) == ~api[o]

\* if (!g_api.<slot>) return ...; and, in the shims that take a handle,
\* if (handle == 0) return ...;
Rejected(o, api, h) == ~api[o] \/ (o \in HandleOps /\ h = NullHandle)

\* The shim returns r.
Return(t, r) ==
  /\ pc' = [pc EXCEPT ![t] = "done"]
  /\ ret' = [ret EXCEPT ![t] = r]

\* The shim goes on to position p.
Goto(t, p) ==
  /\ pc' = [pc EXCEPT ![t] = p]
  /\ UNCHANGED ret

\* ANativeWindow_fromSurface(env, surface) succeeds: a new reference.
FromSurface(t) ==
  /\ nextWin <= MaxRefs
  /\ win' = [win EXCEPT ![t] = nextWin]
  /\ nextWin' = nextWin + 1

\* Variant: the surface is not tested against null before it is converted.
create_check_no_null_test(t) ==
  /\ Resolved(t)
  /\ \E s \in Surfaces :
       /\ Shim(t, "create", NullHandle, s)
       /\ IF Rejected("create", g_api, NullHandle) \/ s = "bad"
            THEN /\ Return(t, NullHandle)
                 /\ UNCHANGED <<win, nextWin, engCalled>>
            ELSE /\ FromSurface(t)
                 /\ engCalled' = [engCalled EXCEPT ![t] = TRUE]
                 /\ Goto(t, "in_create")
  /\ UNCHANGED <<apiVars, tableVars, released, engineVars, callerLive, idx>>
  /\ UNCHANGED <<ctxVars, app_context, ctxSeen>>

\* create(surface, ...), up to and including the call of g_api.create.
create_check(t) ==
  /\ Resolved(t)
  /\ \E s \in Surfaces :
       /\ Shim(t, "create", NullHandle, s)
       /\ IF Rejected("create", g_api, NullHandle) \/ s # "good"
            THEN /\ Return(t, NullHandle)
                 /\ UNCHANGED <<win, nextWin, engCalled>>
            ELSE /\ FromSurface(t)
                 /\ engCalled' = [engCalled EXCEPT ![t] = TRUE]
                 /\ Goto(t, "in_create")
  /\ UNCHANGED <<apiVars, tableVars, released, engineVars, callerLive, idx>>
  /\ UNCHANGED <<ctxVars, app_context, ctxSeen>>

\* Variant: no ANativeWindow_release(win) when g_api.create returns null.
create_return_leak(t) ==
  /\ pc[t] = "in_create"
  /\ \E r \in {NullHandle} \cup (Handles \ engLive) :
       IF r = NullHandle
         THEN /\ Return(t, NullHandle)
              /\ UNCHANGED <<engineVars, released, handle>>
         ELSE /\ engLive' = engLive \cup {r}
              /\ engWin' = [engWin EXCEPT ![r] = win[t]]
              /\ handle' = [handle EXCEPT ![t] = r]
              /\ Goto(t, "lock")
              /\ UNCHANGED released
  /\ UNCHANGED <<apiVars, tableVars, nextWin, callerLive,
                 op, surface, win, idx, old, engCalled>>
  /\ UNCHANGED <<ctxVars, app_context, ctxSeen>>

\* g_api.create returns: null, or the handle of a new instance, whose value
\* is any value no live instance has.
create_return(t) ==
  /\ pc[t] = "in_create"
  /\ \E r \in {NullHandle} \cup (Handles \ engLive) :
       IF r = NullHandle
         THEN /\ released' = ANativeWindow_release(released, win[t])
              /\ Return(t, NullHandle)
              /\ UNCHANGED <<engineVars, handle>>
         ELSE /\ engLive' = engLive \cup {r}
              /\ engWin' = [engWin EXCEPT ![r] = win[t]]
              /\ handle' = [handle EXCEPT ![t] = r]
              /\ Goto(t, "lock")
              /\ UNCHANGED released
  /\ UNCHANGED <<apiVars, tableVars, nextWin, callerLive,
                 op, surface, win, idx, old, engCalled>>
  /\ UNCHANGED <<ctxVars, app_context, ctxSeen>>

\* std::lock_guard<std::mutex> lk(g_win_mu) in create, setSurface and destroy.
lock_guard(t) ==
  /\ pc[t] = "lock"
  /\ g_win_mu = Free
  /\ g_win_mu' = t
  /\ Goto(t, "locked")
  /\ UNCHANGED <<apiVars, g_windows, platformVars, engineVars, callerLive,
                 op, handle, surface, win, idx, old, engCalled>>
  /\ UNCHANGED <<ctxVars, app_context, ctxSeen>>

\* create: release_window_locked(key); g_windows.emplace(key, win); unlock;
\* return key.
create_update(t) ==
  /\ pc[t] = "locked" /\ op[t] = "create"
  /\ g_win_mu = t
  /\ LET r == install(g_windows, released, handle[t], win[t])
     IN  g_windows' = r.tab /\ released' = r.rel
  /\ g_win_mu' = Free
  /\ callerLive' = callerLive \cup {handle[t]}
  /\ old' = [old EXCEPT ![t] = Lookup(g_windows, handle[t])]
  /\ Return(t, handle[t])
  /\ UNCHANGED <<apiVars, nextWin, engineVars,
                 op, handle, surface, win, idx, engCalled>>
  /\ UNCHANGED <<ctxVars, app_context, ctxSeen>>

\* step(handle, dt_ms), resize(handle, ...) and touch(handle, ...), up to
\* and including the call of the engine.
forward_check(t) ==
  /\ Resolved(t)
  /\ \E o \in Forwarders, h \in Args :
       /\ Shim(t, o, h, "null")
       /\ IF Rejected(o, g_api, h)
            THEN /\ Return(t, IF o = "step" THEN 1 ELSE 0)
                 /\ UNCHANGED engCalled
            ELSE /\ engCalled' = [engCalled EXCEPT ![t] = TRUE]
                 /\ Goto(t, "in_forward")
  /\ UNCHANGED <<apiVars, tableVars, platformVars, engineVars, callerLive,
                 win, idx>>
  /\ UNCHANGED <<ctxVars, app_context, ctxSeen>>

\* g_api.step / resize / touch returns; step's status is returned unchanged.
forward_return(t) ==
  /\ pc[t] = "in_forward"
  /\ \E r \in {0, 1} :
       /\ op[t] # "step" => r = 0
       /\ Return(t, r)
  /\ UNCHANGED <<apiVars, tableVars, platformVars, engineVars, callerLive,
                 op, handle, surface, win, idx, old, engCalled>>
  /\ UNCHANGED <<ctxVars, app_context, ctxSeen>>

\* Variant: the entry of the handle is removed and released before
\* g_api.set_surface is called.
set_surface_check_release_first(t) ==
  /\ Resolved(t)
  /\ \E h \in Args, s \in Surfaces :
       /\ Shim(t, "set_surface", h, s)
       /\ IF Rejected("set_surface", g_api, h) \/ s # "good"
            THEN /\ Return(t, 0)
                 /\ UNCHANGED <<win, nextWin, engCalled, engWin, g_windows,
                                released>>
            ELSE /\ FromSurface(t)
                 /\ LET r == release_window_locked(g_windows, released, h)
                    IN  g_windows' = r.tab /\ released' = r.rel
                 /\ engCalled' = [engCalled EXCEPT ![t] = TRUE]
                 /\ engWin' = IF h \in engLive
                                THEN [engWin EXCEPT ![h] = nextWin]
                                ELSE engWin
                 /\ Goto(t, "in_set_surface")
  /\ UNCHANGED <<apiVars, g_win_mu, engLive, callerLive, idx>>
  /\ UNCHANGED <<ctxVars, app_context, ctxSeen>>

\* Variant: g_win_mu is taken before g_api.set_surface is called and held
\* across the call.
set_surface_check_locked(t) ==
  /\ Resolved(t)
  /\ \E h \in Args, s \in Surfaces :
       /\ Shim(t, "set_surface", h, s)
       /\ IF Rejected("set_surface", g_api, h) \/ s # "good"
            THEN /\ Return(t, 0)
                 /\ UNCHANGED <<win, nextWin, engCalled, engWin, g_win_mu>>
            ELSE /\ FromSurface(t)
                 /\ g_win_mu = Free
                 /\ g_win_mu' = t
                 /\ engCalled' = [engCalled EXCEPT ![t] = TRUE]
                 /\ engWin' = IF h \in engLive
                                THEN [engWin EXCEPT ![h] = nextWin]
                                ELSE engWin
                 /\ Goto(t, "in_set_surface")
  /\ UNCHANGED <<apiVars, g_windows, released, engLive, callerLive, idx>>
  /\ UNCHANGED <<ctxVars, app_context, ctxSeen>>

\* setSurface(handle, surface, ...), up to and including the call of
\* g_api.set_surface, which hands the new reference to the instance.
set_surface_check(t) ==
  /\ Resolved(t)
  /\ \E h \in Args, s \in Surfaces :
       /\ Shim(t, "set_surface", h, s)
       /\ IF Rejected("set_surface", g_api, h) \/ s # "good"
            THEN /\ Return(t, 0)
                 /\ UNCHANGED <<win, nextWin, engCalled, engWin>>
            ELSE /\ FromSurface(t)
                 /\ engCalled' = [engCalled EXCEPT ![t] = TRUE]
                 /\ engWin' = IF h \in engLive
                                THEN [engWin EXCEPT ![h] = nextWin]
                                ELSE engWin
                 /\ Goto(t, "in_set_surface")
  /\ UNCHANGED <<apiVars, tableVars, released, engLive, callerLive, idx>>
  /\ UNCHANGED <<ctxVars, app_context, ctxSeen>>

\* g_api.set_surface and g_api.destroy return.
engine_return(t) ==
  /\ pc[t] \in {"in_set_surface", "in_destroy"}
  /\ Goto(t, "lock")
  /\ UNCHANGED <<apiVars, tableVars, platformVars, engineVars, callerLive,
                 op, handle, surface, win, idx, old, engCalled>>
  /\ UNCHANGED <<ctxVars, app_context, ctxSeen>>

\* setSurface: release_window_locked(handle); g_windows.emplace(handle, win).
set_surface_update(t) ==
  /\ pc[t] = "locked" /\ op[t] = "set_surface"
  /\ g_win_mu = t
  /\ LET r == install(g_windows, released, handle[t], win[t])
     IN  g_windows' = r.tab /\ released' = r.rel
  /\ g_win_mu' = Free
  /\ Return(t, 0)
  /\ UNCHANGED <<apiVars, nextWin, engineVars, callerLive,
                 op, handle, surface, win, idx, old, engCalled>>
  /\ UNCHANGED <<ctxVars, app_context, ctxSeen>>

\* Variant: the entry is removed and released before g_api.destroy is called.
destroy_check_release_first(t) ==
  /\ Resolved(t)
  /\ \E h \in Args :
       /\ Shim(t, "destroy", h, "null")
       /\ callerLive' = callerLive \ {h}
       /\ IF Rejected("destroy", g_api, h)
            THEN /\ Return(t, 0)
                 /\ UNCHANGED <<engCalled, engineVars, g_windows, released>>
            ELSE /\ LET r == release_window_locked(g_windows, released, h)
                    IN  g_windows' = r.tab /\ released' = r.rel
                 /\ engCalled' = [engCalled EXCEPT ![t] = TRUE]
                 /\ engLive' = engLive \ {h}
                 /\ engWin' = [k \in Handles |->
                                 IF k = h THEN NullWin ELSE engWin[k]]
                 /\ Goto(t, "in_destroy")
  /\ UNCHANGED <<apiVars, g_win_mu, nextWin, win, idx>>
  /\ UNCHANGED <<ctxVars, app_context, ctxSeen>>

\* destroy(handle), up to and including the call of g_api.destroy, which
\* ends the instance.
destroy_check(t) ==
  /\ Resolved(t)
  /\ \E h \in Args :
       /\ Shim(t, "destroy", h, "null")
       /\ callerLive' = callerLive \ {h}
       /\ IF Rejected("destroy", g_api, h)
            THEN /\ Return(t, 0)
                 /\ UNCHANGED <<engCalled, engineVars>>
            ELSE /\ engCalled' = [engCalled EXCEPT ![t] = TRUE]
                 /\ engLive' = engLive \ {h}
                 /\ engWin' = [k \in Handles |->
                                 IF k = h THEN NullWin ELSE engWin[k]]
                 /\ Goto(t, "in_destroy")
  /\ UNCHANGED <<apiVars, tableVars, platformVars, win, idx>>
  /\ UNCHANGED <<ctxVars, app_context, ctxSeen>>

\* destroy: release_window_locked(handle).
destroy_update(t) ==
  /\ pc[t] = "locked" /\ op[t] = "destroy"
  /\ g_win_mu = t
  /\ LET r == release_window_locked(g_windows, released, handle[t])
     IN  g_windows' = r.tab /\ released' = r.rel
  /\ g_win_mu' = Free
  /\ Return(t, 0)
  /\ UNCHANGED <<apiVars, nextWin, engineVars, callerLive,
                 op, handle, surface, win, idx, old, engCalled>>
  /\ UNCHANGED <<ctxVars, app_context, ctxSeen>>

\* ----------------------------------------------- nativeInitAndroidContext
\* Variant: app_context is not tested against null.
CtxRejected_no_null_test(api, a) == ~api["init_context"]

\* Variant: the slot is not tested before the one-time block is entered.
CtxRejected_no_slot_test(api, a) == a = "null"

\* if (!g_api.init_context) return; if (!app_context) return;
CtxRejected(api, a) == ~api["init_context"] \/ a = "null"

\* nativeInitAndroidContext(app_context), after load_api_or_log: the tests of
\* the slot and of app_context.
init_context_check(t) ==
  /\ Resolved(t)
  /\ \E a \in AppObjects :
       /\ op' = [op EXCEPT ![t] = "init_context"]
       /\ app_context' = [app_context EXCEPT ![t] = a]
       /\ ctxSeen' = [ctxSeen EXCEPT ![t] = g_ctx_once]
       /\ IF CtxRejected(g_api, a)
            THEN Return(t, 0)
            ELSE Goto(t, "ctx_once")
  /\ UNCHANGED <<apiVars, tableVars, platformVars, engineVars, callerLive,
                 handle, surface, win, idx, old, engCalled,
                 g_ctx_once, g_java_vm, g_app_ctx, newRefs, initCalls>>

\* std::call_once(g_ctx_once, ...): the first caller becomes the one
\* execution of the body.
init_context_enter(t) ==
  /\ pc[t] = "ctx_once"
  /\ OnceRuns(g_ctx_once)
  /\ g_ctx_once' = "running"
  /\ Goto(t, "get_vm")
  /\ UNCHANGED <<apiVars, tableVars, platformVars, engineVars, callerLive,
                 op, handle, surface, win, idx, old, engCalled, app_context,
                 g_java_vm, g_app_ctx, newRefs, initCalls, ctxSeen>>

\* std::call_once(g_ctx_once, ...) when the body has been executed: the
\* caller goes on, to the end of nativeInitAndroidContext.
init_context_pass(t) ==
  /\ pc[t] = "ctx_once"
  /\ OncePasses(g_ctx_once)
  /\ Return(t, 0)
  /\ UNCHANGED <<apiVars, tableVars, platformVars, engineVars, callerLive,
                 op, handle, surface, win, idx, old, engCalled, app_context,
                 ctxVars, ctxSeen>>

\* Variant: a failure of GetJavaVM leaves the flag unset, for a later call
\* to try again.
init_context_get_vm_retry(t) ==
  /\ pc[t] = "get_vm"
  /\ \E ok \in BOOLEAN :
       IF ok
         THEN /\ Goto(t, "new_ref")
              /\ UNCHANGED g_ctx_once
         ELSE /\ g_ctx_once' = "init"
              /\ Return(t, 0)
  /\ UNCHANGED <<apiVars, tableVars, platformVars, engineVars, callerLive,
                 op, handle, surface, win, idx, old, engCalled, app_context,
                 g_java_vm, g_app_ctx, newRefs, initCalls, ctxSeen>>

\* if (env->GetJavaVM(&vm) != JNI_OK || !vm) return;  A failure ends the
\* body, which sets the flag.
init_context_get_vm(t) ==
  /\ pc[t] = "get_vm"
  /\ \E ok \in BOOLEAN :
       IF ok
         THEN /\ Goto(t, "new_ref")
              /\ UNCHANGED g_ctx_once
         ELSE /\ g_ctx_once' = "done"
              /\ Return(t, 0)
  /\ UNCHANGED <<apiVars, tableVars, platformVars, engineVars, callerLive,
                 op, handle, surface, win, idx, old, engCalled, app_context,
                 g_java_vm, g_app_ctx, newRefs, initCalls, ctxSeen>>

\* jobject gref = env->NewGlobalRef(app_context); if (!gref) return;
\* g_java_vm = vm; g_app_ctx = gref; and the call of g_api.init_context.
init_context_new_ref(t) ==
  /\ pc[t] = "new_ref"
  /\ \E ok \in BOOLEAN :
       IF ok
         THEN /\ newRefs' = IF newRefs < 2 THEN newRefs + 1 ELSE newRefs
              /\ g_java_vm' = TheVm
              /\ g_app_ctx' = newRefs'
              /\ initCalls' = IF initCalls < 2 THEN initCalls + 1 ELSE initCalls
              /\ engCalled' = [engCalled EXCEPT ![t] = TRUE]
              /\ Goto(t, "in_init_context")
              /\ UNCHANGED g_ctx_once
         ELSE /\ g_ctx_once' = "done"
              /\ Return(t, 0)
              /\ UNCHANGED <<g_java_vm, g_app_ctx, newRefs, initCalls, engCalled>>
  /\ UNCHANGED <<apiVars, tableVars, platformVars, engineVars, callerLive,
                 op, handle, surface, win, idx, old, app_context, ctxSeen>>

\* g_api.init_context returns: the body ends, the flag is set.
init_context_return(t) ==
  /\ pc[t] = "in_init_context"
  /\ g_ctx_once' = "done"
  /\ Return(t, 0)
  /\ UNCHANGED <<apiVars, tableVars, platformVars, engineVars, callerLive,
                 op, handle, surface, win, idx, old, engCalled, app_context,
                 g_java_vm, g_app_ctx, newRefs, initCalls, ctxSeen>>

\* ------------------------------------------------------- specification
Next ==
  \/ LibAppears
  \/ \E t \in Threads :
       \/ Call(t)
       \/ load_api_enter(t)
       \/ load_api_dlopen(t)
       \/ load_api_bind(t)
       \/ create_check(t)
       \/ create_return(t)
       \/ lock_guard(t)
       \/ create_update(t)
       \/ forward_check(t)
       \/ forward_return(t)
       \/ set_surface_check(t)
       \/ engine_return(t)
       \/ set_surface_update(t)
       \/ destroy_check(t)
       \/ destroy_update(t)

Spec == Init /\ [][Next]_vars

\* A thread that waits for g_win_mu gets it when it stays free, and a thread
\* that holds it finishes its table update.  Nothing is assumed about the
\* engine: a call into it may never return.
Fairness ==
  \A t \in Threads :
    /\ WF_vars(lock_guard(t))
    /\ WF_vars(create_update(t) \/ set_surface_update(t) \/ destroy_update(t))

LiveSpec == Init /\ [][Next]_vars /\ Fairness

\* The threads of the UI shell calling nativeInitAndroidContext.
CtxNext ==
  \/ LibAppears
  \/ \E t \in Threads :
       \/ Call(t)
       \/ load_api_enter(t)
       \/ load_api_dlopen(t)
       \/ load_api_bind(t)
       \/ init_context_check(t)
       \/ init_context_enter(t)
       \/ init_context_pass(t)
       \/ init_context_get_vm(t)
       \/ init_context_new_ref(t)
       \/ init_context_return(t)

CtxSpec == Init /\ [][CtxNext]_vars

\* The threads of the UI shell calling the six shims and
\* nativeInitAndroidContext.
AllNext ==
  \/ LibAppears
  \/ \E t \in Threads :
       \/ Call(t)
       \/ load_api_enter(t)
       \/ load_api_dlopen(t)
       \/ load_api_bind(t)
       \/ init_context_check(t)
       \/ init_context_enter(t)
       \/ init_context_pass(t)
       \/ init_context_get_vm(t)
       \/ init_context_new_ref(t)
       \/ init_context_return(t)
       \/ create_check(t)
       \/ create_return(t)
       \/ lock_guard(t)
       \/ create_update(t)
       \/ forward_check(t)
       \/ forward_return(t)
       \/ set_surface_check(t)
       \/ engine_return(t)
       \/ set_surface_update(t)
       \/ destroy_check(t)
       \/ destroy_update(t)

AllSpec == Init /\ [][AllNext]_vars

TypeOK ==
  /\ lib \in [present : BOOLEAN, exports : SUBSET Slots]
  /\ g_api \in [Slots -> BOOLEAN]
  /\ g_api_once \in {"init", "running", "done"}
  /\ g_win_mu \in {Free} \cup Threads
  /\ DOMAIN g_windows \subseteq {NullHandle} \cup Handles
  /\ nextWin \in 1..(MaxRefs + 1)
  /\ released \in [Wins -> 0..2]
  /\ engLive \subseteq Handles
  /\ callerLive \subseteq Handles
  /\ g_ctx_once \in {"init", "running", "done"}
  /\ g_java_vm \in {NullVm, TheVm}
  /\ g_app_ctx \in 0..2
  /\ newRefs \in 0..2
  /\ initCalls \in 0..2
  /\ ctxSeen \in [Threads -> {"init", "running", "done"}]
  /\ app_context \in [Threads -> {"null", "object"}]


\* ---------------------------------------------------- the resource table
\* Thread t takes the step that ends its call of shim o with the table update.
Updates(t, o) == op[t] = o /\ pc[t] = "locked" /\ pc'[t] = "done"

\* Thread t takes the step that ends its call of shim o.
Returns(t, o) == InFlight(t) /\ pc'[t] = "done" /\ op'[t] = o

\* Thread t takes the step in which its call, of shim o, tests its slot and
\* its handle.
Tests(t, o) == pc[t] = "call_once" /\ pc'[t] \notin {"call_once", "dlopen"} /\ op'[t] = o

\* C1: a set_surface(h, S2) call that reaches the engine, made while h has
\* the reference r1 installed, ends with the table mapping h to the new
\* reference r2, r2 unreleased, and r1 released exactly once.
C1_SetSurfaceReplaces ==
  [][\A t \in Threads :
       (Updates(t, "set_surface") /\ old[t] # NullWin) =>
          /\ Lookup(g_windows', handle[t]) = win[t]
          /\ released'[win[t]] = 0
          /\ released[old[t]] = 0
          /\ released'[old[t]] = 1]_vars

C1_Witness ==
  \E t \in Threads :
    /\ pc[t] = "done" /\ op[t] = "set_surface" /\ engCalled[t]
    /\ old[t] # NullWin /\ released[old[t]] = 1
    /\ win[t] # old[t] /\ Lookup(g_windows, handle[t]) = win[t]

\* C2 as claimed: after every destroy(h) the table has no entry for h, and a
\* reference installed for h before the call has been released exactly once.
C2_DestroyAlwaysRemoves ==
  [][\A t \in Threads :
       Returns(t, "destroy") =>
          /\ handle'[t] \notin DOMAIN g_windows'
          /\ old'[t] # NullWin => released'[old'[t]] = 1]_vars

\* C2 as amended: the same, for every destroy(h) made while the destroy slot
\* of the API Table is bound.
C2_DestroyRemoves ==
  [][\A t \in Threads :
       (Returns(t, "destroy") /\ g_api["destroy"]) =>
          /\ handle'[t] \notin DOMAIN g_windows'
          /\ old'[t] # NullWin => released'[old'[t]] = 1]_vars

C2_Witness ==
  \E t \in Threads :
    /\ pc[t] = "done" /\ op[t] = "destroy" /\ engCalled[t]
    /\ old[t] # NullWin /\ released[old[t]] = 1
    /\ handle[t] \notin DOMAIN g_windows

\* C3: the step of a destroy(h) call that invokes the engine's destroy
\* leaves the entry of h in the table and its reference unreleased, so the
\* reference is unreleased when the engine's destroy runs; the step that
\* removes the entry and releases the reference belongs to a call that has
\* invoked the engine's destroy before.
C3_EngineDestroyFirst ==
  [][\A t \in Threads :
       /\ (Tests(t, "destroy") /\ handle'[t] \in DOMAIN g_windows) =>
             /\ handle'[t] \in DOMAIN g_windows'
             /\ g_windows'[handle'[t]] = g_windows[handle'[t]]
             /\ released'[g_windows[handle'[t]]] = 0
       /\ (op'[t] = "destroy" /\ pc'[t] # pc[t]
             /\ (g_windows' # g_windows \/ released' # released)) =>
             /\ engCalled[t]
             /\ pc[t] = "locked"]_vars

C3_Witness ==
  \E t \in Threads :
    /\ pc[t] = "in_destroy" /\ engCalled[t] /\ handle[t] \notin engLive
    /\ old[t] # NullWin /\ released[old[t]] = 0
    /\ Lookup(g_windows, handle[t]) = old[t]

\* C4: a create call in which the engine returned the handle h ends with the
\* table mapping h to the reference this call acquired and passed to the
\* engine, that reference unreleased; an entry the key already had has been
\* replaced and its reference released once.
C4_CreateInstalls ==
  [][\A t \in Threads :
       Updates(t, "create") =>
          /\ handle[t] # NullHandle /\ ret'[t] = handle[t]
          /\ Lookup(g_windows', handle[t]) = win[t]
          /\ win[t] # NullWin /\ released'[win[t]] = 0
          /\ engWin[handle[t]] = win[t]
          /\ handle[t] \in DOMAIN g_windows =>
               /\ g_windows[handle[t]] # win[t]
               /\ released[g_windows[handle[t]]] = 0
               /\ released'[g_windows[handle[t]]] = 1]_vars

C4_Witness ==
  \E t \in Threads :
    /\ pc[t] = "done" /\ op[t] = "create" /\ ret[t] # NullHandle
    /\ old[t] # NullWin /\ released[old[t]] = 1
    /\ Lookup(g_windows, ret[t]) = win[t] /\ released[win[t]] = 0

\* The references ANativeWindow_fromSurface has handed out.
Acquired == 1..(nextWin - 1)

\* The keys of the table mapped to reference w.
KeysOf(w) == {k \in DOMAIN g_windows : g_windows[k] = w}

Quiescent == \A t \in Threads : ~InFlight(t)

\* C5: no reference is released more than once, and whenever no shim call is
\* in flight every acquired reference is either the entry of exactly one
\* handle and unreleased, or in no entry and released exactly once.
C5_ReleasedOnce ==
  /\ \A w \in Wins : released[w] <= 1
  /\ \A w \in Wins \ Acquired : released[w] = 0 /\ KeysOf(w) = {}
  /\ Quiescent =>
       /\ \A w \in Acquired :
            \/ released[w] = 0 /\ Cardinality(KeysOf(w)) = 1
            \/ released[w] = 1 /\ KeysOf(w) = {}
       /\ Cardinality(Acquired)
            = Cardinality({w \in Wins : released[w] = 1})
                + Cardinality(DOMAIN g_windows)

C5_Witness ==
  /\ Quiescent
  /\ nextWin = MaxRefs + 1
  /\ \E w \in Acquired : released[w] = 1
  /\ \E w \in Acquired : released[w] = 0 /\ KeysOf(w) # {}


\* C6: the reference an instance was handed last (by create or set_surface)
\* is not released before the engine's destroy has been invoked for that
\* instance.
C6_WindowOutlivesInstance ==
  \A h \in engLive : engWin[h] # NullWin /\ released[engWin[h]] = 0

\* ------------------------------------------------------- the API table
\* A thread is executing the body of the call_once in load_api_or_log.
Resolving(t) == pc[t] \in {"dlopen", "bind"}

\* C7: the body of load_api_or_log's call_once is executed at most once,
\* also when that execution did not find the library, and once it has
\* finished the flag stays set and no slot changes.
C7_ResolveOnce ==
  [][/\ resolveRuns' <= 1
     /\ g_api_once = "done" =>
          /\ g_api' = g_api
          /\ g_api_once' = "done"
          /\ g_lib_handle' = g_lib_handle
          /\ resolveRuns' = resolveRuns]_vars

C7_Witness ==
  /\ g_api_once = "done" /\ resolveRuns = 1
  /\ lib.present /\ ~g_lib_handle
  /\ \A t \in Threads : pc[t] = "done" /\ ret[t] = 1

\* C8: a thread that is past load_api_or_log (it tests its slot, is inside
\* the engine, updates the table or has returned) finds the flag set and no
\* thread inside the body: it has waited for the one execution to finish.
C8_ResolvedBeforeUse ==
  \A t \in Threads :
    (pc[t] \notin {"idle", "call_once"} /\ ~Resolving(t)) =>
       /\ g_api_once = "done"
       /\ \A u \in Threads : ~Resolving(u)

C8_Witness ==
  \E t, u \in Threads :
    /\ pc[t] = "call_once" /\ g_api_once = "running"
    /\ pc[u] = "bind" /\ idx[u] > 1
    /\ g_api["create"] /\ ~g_api["destroy"] /\ "destroy" \in lib.exports

\* The result a shim returns when it cannot forward the call.
Unavailable(o) == IF o = "step" THEN 1 ELSE 0

\* The step calls no engine entry point, takes no window reference and
\* leaves the table alone.
NoEffect(t) ==
  /\ ~engCalled'[t]
  /\ UNCHANGED <<tableVars, platformVars, engineVars>>

\* C9: a shim whose own slot is unbound invokes no engine entry point, takes
\* no window reference, leaves the table unchanged and returns its
\* unavailable result: create 0, step a non-zero status, the others nothing.
C9_UnboundSlot ==
  [][\A t \in Threads, o \in Ops :
       (Tests(t, o) /\ ~g_api[o]) =>
          /\ pc'[t] = "done"
          /\ ret'[t] = Unavailable(o)
          /\ NoEffect(t)]_vars

C9_Witness ==
  \E t \in Threads :
    /\ pc[t] = "done" /\ op[t] = "step" /\ ~g_api["step"] /\ g_api["create"]
    /\ handle[t] # NullHandle /\ handle[t] \in DOMAIN g_windows
    /\ ret[t] = 1 /\ ~engCalled[t]

\* C10: a shim called with the handle 0 invokes no engine entry point and
\* leaves the table unchanged, whatever the slots are; step then returns a
\* non-zero status; and the table never has the key 0.
C10_NullHandle ==
  [][/\ \A t \in Threads, o \in HandleOps :
          (Tests(t, o) /\ handle'[t] = NullHandle) =>
             /\ pc'[t] = "done"
             /\ o = "step" => ret'[t] # 0
             /\ NoEffect(t)
     /\ NullHandle \notin DOMAIN g_windows']_vars

C10_Witness ==
  \E t \in Threads :
    /\ pc[t] = "done" /\ op[t] = "step" /\ g_api["step"]
    /\ handle[t] = NullHandle
    /\ ret[t] = 1 /\ ~engCalled[t]
    /\ callerLive # {} /\ DOMAIN g_windows # {}

\* ------------------------------------------------------ rejected surfaces
\* C11: a create or set_surface call whose surface is null, or is one that
\* ANativeWindow_fromSurface cannot convert, ends in the step that tests it:
\* it invokes no engine entry point, acquires no reference and leaves the
\* table unchanged; create returns 0 and the handle of set_surface keeps the
\* entry it had.
C11_RejectedSurface ==
  [][\A t \in Threads, o \in {"create", "set_surface"} :
       (Tests(t, o) /\ surface'[t] # "good") =>
          /\ pc'[t] = "done"
          /\ ret'[t] = 0
          /\ win'[t] = NullWin
          /\ NoEffect(t)
          /\ o = "set_surface" =>
               Lookup(g_windows', handle'[t]) = Lookup(g_windows, handle'[t])]_vars

C11_Witness ==
  \E t \in Threads :
    /\ pc[t] = "done" /\ op[t] = "set_surface" /\ g_api["set_surface"]
    /\ surface[t] = "bad" /\ ~engCalled[t] /\ win[t] = NullWin
    /\ handle[t] # NullHandle /\ old[t] # NullWin
    /\ Lookup(g_windows, handle[t]) = old[t] /\ released[old[t]] = 0
    /\ nextWin <= MaxRefs

\* The references the table holds.
Installed == {g_windows[k] : k \in DOMAIN g_windows}

\* C12: when g_api.create returns null, the step in which create takes the
\* result releases the reference the call acquired, which no entry of the
\* table holds, for the first and only time, leaves the table as it is and
\* returns 0.
C12_EngineCreateFails ==
  [][\A t \in Threads :
       (pc[t] = "in_create" /\ pc'[t] = "done") =>
          /\ ret'[t] = NullHandle
          /\ win[t] # NullWin /\ win[t] \notin Installed
          /\ released[win[t]] = 0 /\ released'[win[t]] = 1
          /\ \A w \in Wins \ {win[t]} : released'[w] = released[w]
          /\ g_windows' = g_windows
          /\ engLive' = engLive]_vars

C12_Witness ==
  \E t \in Threads :
    /\ pc[t] = "done" /\ op[t] = "create" /\ engCalled[t]
    /\ ret[t] = NullHandle /\ win[t] # NullWin
    /\ released[win[t]] = 1 /\ win[t] \notin Installed
    /\ DOMAIN g_windows # {}

\* ---------------------------------------------- the native context pair
\* C13: over all nativeInitAndroidContext calls of all threads, the engine's
\* init_context is invoked at most once and at most one global reference is
\* created; the pair (g_java_vm, g_app_ctx), once stored, is never replaced
\* and never cleared.
C13_RegisteredOnce ==
  [][/\ initCalls' <= 1
     /\ newRefs' <= 1
     /\ g_app_ctx' # NullRef => (g_java_vm' = TheVm /\ g_app_ctx' = newRefs')
     /\ g_app_ctx # NullRef =>
          /\ g_app_ctx' = g_app_ctx
          /\ g_java_vm' = g_java_vm
          /\ newRefs' = newRefs
          /\ initCalls' = initCalls]_vars

C13_Witness ==
  \E t, u \in Threads :
    /\ t # u
    /\ pc[t] = "done" /\ op[t] = "init_context" /\ engCalled[t]
    /\ pc[u] = "done" /\ op[u] = "init_context" /\ ~engCalled[u]
    /\ app_context[t] = "object" /\ app_context[u] = "object"
    /\ ctxSeen[t] = "init" /\ ctxSeen[u] = "init"
    /\ g_ctx_once = "done" /\ initCalls = 1 /\ newRefs = 1
    /\ g_java_vm = TheVm /\ g_app_ctx # NullRef

\* C14: a nativeInitAndroidContext call made while the init_context slot is
\* unbound, or with a null app_context, ends in the step that tests them: it
\* does not invoke the engine's init_context, creates no global reference and
\* leaves the one-time flag and the stored pair as they are.
C14_ContextPreconditions ==
  [][\A t \in Threads :
       (Tests(t, "init_context")
          /\ (~g_api["init_context"] \/ app_context'[t] = "null")) =>
          /\ pc'[t] = "done"
          /\ ~engCalled'[t]
          /\ UNCHANGED <<g_ctx_once, g_java_vm, g_app_ctx, newRefs, initCalls>>]_vars

C14_Witness ==
  \E t \in Threads :
    /\ pc[t] = "done" /\ op[t] = "init_context" /\ app_context[t] = "object"
    /\ g_lib_handle /\ g_api["create"] /\ ~g_api["init_context"]
    /\ ~engCalled[t] /\ g_ctx_once = "init"
    /\ g_java_vm = NullVm /\ g_app_ctx = NullRef

\* ------------------------------------------------------- the table lock
\* The positions of a thread inside an engine entry point.
InEngine ==
  {"in_create", "in_forward", "in_set_surface", "in_destroy", "in_init_context"}

\* C15: a step that changes the table, or releases a reference the table
\* holds, is the locked update of the thread that holds g_win_mu; and a
\* thread inside an engine entry point (create, step, resize, set_surface,
\* touch, destroy, init_context) does not hold g_win_mu, which only a thread
\* at its locked update holds.
C15_LockDiscipline ==
  [][/\ (g_windows' # g_windows
           \/ \E w \in Installed : released'[w] # released[w]) =>
          \E t \in Threads :
            /\ g_win_mu = t /\ pc[t] = "locked"
            /\ pc'[t] = "done" /\ g_win_mu' = Free
     /\ \A t \in Threads :
          /\ pc'[t] \in InEngine => g_win_mu' # t
          /\ g_win_mu' = t => pc'[t] = "locked"]_vars

C15_Witness ==
  \E t, u \in Threads :
    /\ g_win_mu = t /\ pc[t] = "locked" /\ op[t] = "set_surface"
    /\ handle[t] \in DOMAIN g_windows
    /\ pc[u] = "in_init_context"

\* ------------------------------------------------ the optional slot
\* The six slots the shims call.
Mandatory == \A o \in Ops : g_api[o]

\* The arguments thread t's call of shim o has bound let it reach the engine:
\* a handle other than 0, and for create and set_surface a surface that
\* converts.
Forwardable(t, o) ==
  /\ o \in HandleOps => handle'[t] # NullHandle
  /\ o \in {"create", "set_surface"} => surface'[t] = "good"

\* C16: with the six slots of the shims bound, whether a shim reaches the
\* engine depends on its handle and its surface alone, the same with
\* init_context bound and unbound; with init_context unbound,
\* nativeInitAndroidContext ends at its test and changes nothing.
C16_OptionalSlot ==
  [][\A t \in Threads :
       /\ \A o \in Ops :
            (Tests(t, o) /\ Mandatory) =>
               /\ engCalled'[t] = Forwardable(t, o)
               /\ (pc'[t] = "done") = ~Forwardable(t, o)
               /\ UNCHANGED <<g_windows, released, ctxVars>>
       /\ (Tests(t, "init_context") /\ ~g_api["init_context"]) =>
            /\ pc'[t] = "done" /\ ~engCalled'[t]
            /\ UNCHANGED <<tableVars, platformVars, engineVars, ctxVars>>]_vars

C16_Witness ==
  \E t, u \in Threads :
    /\ Mandatory /\ ~g_api["init_context"]
    /\ pc[t] = "done" /\ op[t] = "set_surface" /\ engCalled[t]
    /\ old[t] # NullWin /\ released[old[t]] = 1
    /\ Lookup(g_windows, handle[t]) = win[t] /\ released[win[t]] = 0
    /\ pc[u] = "done" /\ op[u] = "init_context" /\ app_context[u] = "object"
    /\ ~engCalled[u] /\ g_ctx_once = "init"

\* C17: g_win_mu, once taken, is released; and when a thread stays inside an
\* engine entry point for ever, another thread whose own engine call has
\* returned gets g_win_mu, completes its table update and returns.
C17_LockProgress ==
  /\ \A t \in Threads : (g_win_mu = t) ~> (g_win_mu = Free)
  /\ \A t, u \in Threads :
       (t # u) =>
         (<>[](pc[u] \in InEngine) => ((pc[t] = "lock") ~> (pc[t] = "done")))

C17_Witness ==
  \E t, u \in Threads :
    /\ pc[u] \in InEngine /\ handle[u] # NullHandle
    /\ pc[t] = "locked" /\ g_win_mu = t /\ op[t] \in {"set_surface", "destroy"}
    /\ handle[t] # handle[u]
    /\ handle[t] \in DOMAIN g_windows /\ handle[u] \in DOMAIN g_windows

\* The one-time block of nativeInitAndroidContext has ended without storing
\* the pair.
FailedGate == g_ctx_once = "done" /\ g_app_ctx = NullRef

\* C18: a nativeInitAndroidContext call that fails inside the one-time block
\* (GetJavaVM or NewGlobalRef fails) sets the flag all the same; from then on
\* the flag stays set, no call invokes the engine's init_context or creates
\* a global reference, and a later call that passes the tests of the slot
\* and of app_context returns from call_once at once.
C18_FailedGateConsumed ==
  [][/\ \A t \in Threads :
          (pc[t] \in {"get_vm", "new_ref"} /\ pc'[t] = "done") => FailedGate'
     /\ FailedGate' => (initCalls' = 0 /\ newRefs' = 0 /\ g_java_vm' = NullVm)
     /\ FailedGate =>
          /\ FailedGate'
          /\ \A t \in Threads :
               /\ ~engCalled'[t]
               /\ (pc[t] = "ctx_once" /\ pc'[t] # pc[t]) => pc'[t] = "done"]_vars

C18_Witness ==
  \E t \in Threads :
    /\ FailedGate /\ g_api["init_context"]
    /\ pc[t] = "done" /\ op[t] = "init_context" /\ app_context[t] = "object"
    /\ ctxSeen[t] = "done" /\ ~engCalled[t]
    /\ initCalls = 0 /\ newRefs = 0 /\ g_java_vm = NullVm

\* C19: a nativeInitAndroidContext call rejected for its null app_context
\* leaves the one-time flag as it is; while the flag is unset nothing is
\* registered, a call with the slot bound and an object goes on to call_once
\* and executes its body, and the body, when GetJavaVM and NewGlobalRef
\* succeed, creates the first global reference and makes the first
\* invocation of the engine's init_context.
C19_NullObjectKeepsGate ==
  [][/\ g_ctx_once' = "init" =>
          (g_app_ctx' = NullRef /\ newRefs' = 0 /\ initCalls' = 0)
     /\ \A t \in Threads :
          /\ (Tests(t, "init_context") /\ app_context'[t] = "null") =>
                (pc'[t] = "done" /\ g_ctx_once' = g_ctx_once)
          /\ (Tests(t, "init_context") /\ app_context'[t] = "object"
                /\ g_api["init_context"]) => pc'[t] = "ctx_once"
          /\ (pc[t] = "ctx_once" /\ g_ctx_once = "init" /\ pc'[t] # pc[t]) =>
                pc'[t] = "get_vm"
          /\ (pc[t] = "new_ref" /\ pc'[t] = "in_init_context") =>
                /\ newRefs = 0 /\ newRefs' = 1
                /\ initCalls = 0 /\ initCalls' = 1
                /\ g_app_ctx' = 1 /\ g_java_vm' = TheVm]_vars

C19_Witness ==
  \E t, u \in Threads :
    /\ pc[t] = "done" /\ op[t] = "init_context" /\ app_context[t] = "null"
    /\ g_api["init_context"] /\ ctxSeen[t] = "init"
    /\ pc[u] = "done" /\ op[u] = "init_context" /\ app_context[u] = "object"
    /\ engCalled[u]
    /\ g_ctx_once = "done" /\ g_app_ctx # NullRef
    /\ newRefs = 1 /\ initCalls = 1

\* ------------------------------------------------- order in setSurface
\* Thread t's set_surface call has invoked the engine and not yet updated
\* the table.
Swapping(t) ==
  op[t] = "set_surface" /\ pc[t] \in {"in_set_surface", "lock", "locked"}

\* C20: the step of a set_surface(h, S2) call that invokes the engine's
\* set_surface hands it the new reference and leaves the entry of h alone;
\* while the engine's set_surface runs, and until the locked update, the
\* reference h had and the new one are both unreleased and h still has its
\* entry; the reference h had is released by the locked update of the call,
\* after the engine call has returned.
C20_EngineBeforeRelease ==
  [][\A t \in Threads :
       /\ (Tests(t, "set_surface") /\ engCalled'[t]) =>
             /\ pc'[t] = "in_set_surface"
             /\ win'[t] # NullWin /\ win'[t] # old'[t]
             /\ engWin'[handle'[t]] = win'[t]
             /\ UNCHANGED <<g_windows, released>>
       /\ Swapping(t)' =>
             /\ released'[win'[t]] = 0
             /\ old'[t] # NullWin =>
                  /\ released'[old'[t]] = 0
                  /\ Lookup(g_windows', handle'[t]) = old'[t]
       /\ (Swapping(t) /\ old[t] # NullWin
             /\ released'[old[t]] # released[old[t]]) =>
             /\ pc[t] = "locked" /\ pc'[t] = "done"
             /\ released'[old[t]] = 1]_vars

C20_Witness ==
  \E t \in Threads :
    /\ pc[t] = "in_set_surface" /\ engCalled[t]
    /\ old[t] # NullWin /\ released[old[t]] = 0
    /\ win[t] # old[t] /\ released[win[t]] = 0
    /\ engWin[handle[t]] = win[t]
    /\ Lookup(g_windows, handle[t]) = old[t]

====
